---- MODULE Spec2Model ----
(***************************************************************************)
(* Model of skills_ml.job_postings.corpora (the corpus creators) and of    *)
(* skills_ml.algorithms.preprocessing (IterablePipeline, func2gen).        *)
(*                                                                         *)
(* Strings are sequences of one-character strings; a job posting is a      *)
(* function from the field names it has to their values; a generator is    *)
(* its suspension point plus the position of the iterator it reads.        *)
(***************************************************************************)
EXTENDS Integers, Sequences, FiniteSets, TLC

VARIABLES
    variant,                 \* the class of the corpus creator instance
    raw,                     \* self.raw
    document_schema_fields,  \* self.document_schema_fields (instance attribute)
    job_posting_generator,   \* self.job_posting_generator: the documents it will give
    restartable,             \* TRUE: a list-like source; FALSE: a one-shot generator
    section_regex,           \* self.section_regex (a literal prefix pattern)
    k,                       \* self.k
    lookup,                  \* self.lookup
    gen,                     \* the live generator of __iter__: none/fresh/yielded/done
    srcPos,                  \* documents the source iterator has handed out
    pending,                 \* Word2Vec: sentences of the current document not yet yielded
    passNo,                  \* number of iterations started on the instance
    out,                     \* what the last next() gave the consumer
    pulled,                  \* source positions (0-indexed) the last next() consumed
    emitted,                 \* every unit yielded so far, with the document it came from
    failed,                  \* self.k at the last KeyError since a unit was yielded, else -1
    functions,               \* IterablePipeline.functions
    source_data_generator,   \* the items the source given to build() will give
    pipePc,                  \* new / built / running / finished
    pipePos,                 \* items the pipeline has taken from the source
    applied,                 \* every call of a stage function so far: <<stage, source index>>
    outputs,                 \* the items delivered to the consumer, with their source index
    pipeOut,                 \* what the last next() on the built pipeline gave
    scanPc,                  \* SectionExtractCorpusCreator._transform: idle / loop / returned
    desclines,               \* its desclines
    scanPos,                 \* the lines its loop has done
    scanSt                   \* its prior_empty, heading and words

corpusVars == <<variant, raw, document_schema_fields, job_posting_generator,
                restartable, section_regex, k, lookup, gen, srcPos, pending,
                passNo, out, pulled, emitted, failed>>

pipeVars == <<functions, source_data_generator, pipePc, pipePos, applied, outputs,
              pipeOut>>

scanVars == <<scanPc, desclines, scanPos, scanSt>>

vars == <<corpusVars, pipeVars, scanVars>>

-----------------------------------------------------------------------------
(* Bounds *)

MaxDocs == 2
MaxPasses == 2
MaxLines == 3
MaxStages == 2
MaxItems == 3

-----------------------------------------------------------------------------
(* Python str and list primitives *)

Whitespace == {" ", "\n"}

None == "None"

RECURSIVE SplitAny(_, _)
\* the pieces of s between the characters of C, empty pieces kept
SplitAny(s, C) ==
    IF \A i \in 1..Len(s) : s[i] \notin C
    THEN <<s>>
    ELSE LET i == CHOOSE i \in 1..Len(s) :
                      s[i] \in C /\ \A j \in 1..(i-1) : s[j] \notin C
         IN  <<SubSeq(s, 1, i-1)>> \o SplitAny(SubSeq(s, i+1, Len(s)), C)

NonEmptyPiece(w) == w # <<>>

\* str.split(sep) with a one-character separator
SplitOn(s, c) == SplitAny(s, {c})

\* str.split() without arguments
SplitWs(s) == SelectSeq(SplitAny(s, Whitespace), NonEmptyPiece)

RECURSIVE Flatten(_, _)
\* sep.join(parts)
Flatten(parts, sep) ==
    IF parts = <<>> THEN <<>>
    ELSE IF Len(parts) = 1 THEN parts[1]
    ELSE parts[1] \o sep \o Flatten(Tail(parts), sep)

\* variant of join_spaces: ''.join
join_spaces_nosep(parts) == Flatten(parts, <<>>)

\* self.join_spaces = ' '.join
join_spaces(parts) == Flatten(parts, <<" ">>)

\* bool(s.strip())
IsBlank(s) == \A i \in 1..Len(s) : s[i] \in Whitespace

StartsWith(s, p) == Len(s) >= Len(p) /\ SubSeq(s, 1, Len(p)) = p

EndsWith(s, p) == Len(s) >= Len(p) /\ SubSeq(s, Len(s) - Len(p) + 1, Len(s)) = p

RECURSIVE Replace(_, _)
\* s.replace(p, ''): every non-overlapping occurrence of p, left to right
Replace(s, p) ==
    IF s = <<>> THEN <<>>
    ELSE IF StartsWith(s, p) THEN Replace(SubSeq(s, Len(p) + 1, Len(s)), p)
    ELSE <<s[1]>> \o Replace(Tail(s), p)

-----------------------------------------------------------------------------
(* NLPTransforms (skills_ml.algorithms.string_cleaners) *)

Punct == {".", ","}

Lower(c) ==
    CASE c = "X" -> "x" [] c = "Y" -> "y" [] c = "E" -> "e"
      [] c = "Q" -> "q" [] c = "S" -> "s" [] c = "C" -> "c"
      [] OTHER -> c

IsNotPunct(c) == c \notin Punct
IsNotTag(c) == c # "<"

lowercase_strip_punc(s) ==
    LET t == SelectSeq(s, IsNotPunct) IN [i \in 1..Len(t) |-> Lower(t[i])]

clean_str(s) == [i \in 1..Len(s) |-> IF s[i] \in Punct THEN " " ELSE Lower(s[i])]

clean_html(s) == SelectSeq(s, IsNotTag)

sentence_tokenize(s) == SelectSeq(SplitAny(s, {"."}), LAMBDA p : ~IsBlank(p))

word_tokenize(s) == SplitWs(s)

-----------------------------------------------------------------------------
(* Job postings and the construction parameters *)

DefaultFields == <<"description", "experienceRequirements", "qualifications", "skills">>

\* class attribute JobCategoryCorpusCreator.document_schema_fields
JobCategoryClassFields == <<"occupationalCategory">>

\* self.key
key == "onet_soc_code"

DocA == [description            |-> <<"X", ".", " ", "Y">>,
         experienceRequirements |-> <<"E">>,
         qualifications         |-> <<"Q", ",">>,
         skills                 |-> <<"<", "S">>,
         occupationalCategory   |-> <<"C", ".">>,
         onet_soc_code          |-> "11-1011"]

\* its occupationalCategory holds no sentence
DocB == [description            |-> <<"y", " ", " ", "x", ".">>,
         experienceRequirements |-> <<"e">>,
         qualifications         |-> <<"q">>,
         skills                 |-> <<"s", ".", "S">>,
         occupationalCategory   |-> <<".">>,
         onet_soc_code          |-> "29-1141"]

\* a posting without the qualifications field and without an onet_soc_code
DocNoQual == [description            |-> <<"x", ".">>,
              experienceRequirements |-> <<"E", " ", "e">>,
              skills                 |-> <<"S">>,
              occupationalCategory   |-> <<"C">>]

Docs == {DocA, DocB, DocNoQual}

FieldLists == {DefaultFields,
               <<"description", "skills">>,
               <<"skills", "description">>,
               <<"occupationalCategory">>}

Variants == {"CorpusCreator", "SimpleCorpusCreator", "Doc2VecGensimCorpusCreator",
             "Word2VecGensimCorpusCreator", "JobCategoryCorpusCreator",
             "RawCorpusCreator"}

SeqsUpTo(S, n) == UNION {[1..m -> S] : m \in 0..n}

Range(f) == {f[x] : x \in DOMAIN f}

-----------------------------------------------------------------------------
(* Results of a call: a value or a raised KeyError *)

Ok(v) == [err |-> FALSE, val |-> v]
KeyError == [err |-> TRUE, val |-> <<>>]

\* the units the creators yield, in one record shape
NoDict == [none |-> <<>>]
StrUnit(s) == [type |-> "str", str |-> s, dict |-> NoDict, words |-> <<>>, tags |-> <<>>]
DictUnit(d) == [type |-> "dict", str |-> <<>>, dict |-> d, words |-> <<>>, tags |-> <<>>]
TokensUnit(w) == [type |-> "tokens", str |-> <<>>, dict |-> NoDict, words |-> w, tags |-> <<>>]
TaggedDocument(w, t) == [type |-> "tagged", str |-> <<>>, dict |-> NoDict, words |-> w, tags |-> t]

\* safe_get(document, *self.key)
safe_get(document, f) == IF f \in DOMAIN document THEN document[f] ELSE None

\* document.get(field, '')
DictGet(document, f) == IF f \in DOMAIN document THEN document[f] ELSE <<>>

\* {key: document[key] for key in self.document_schema_fields}
Project(document, fields) ==
    IF \E i \in 1..Len(fields) : fields[i] \notin DOMAIN document
    THEN KeyError
    ELSE Ok([f \in Range(fields) |-> document[f]])

-----------------------------------------------------------------------------
(* The _clean, _join and _transform methods *)

\* CorpusCreator._clean: a field the document lacks is passed over
CorpusCreator_clean(document, fields) ==
    [f \in DOMAIN document |->
        IF f \in Range(fields)
        THEN join_spaces(SplitWs(SelectSeq(clean_html(document[f]), LAMBDA c : c # "\n")))
        ELSE document[f]]

CorpusCreator_join(document, fields) ==
    join_spaces([i \in 1..Len(fields) |-> DictGet(document, fields[i])])

SimpleCorpusCreator_clean(document, fields) ==
    join_spaces([i \in 1..Len(fields) |-> lowercase_strip_punc(DictGet(document, fields[i]))])

\* variant of Gensim_clean: document.get(field, '') in place of document[field]
Gensim_clean_tolerant(document, fields) ==
    Ok(join_spaces([i \in 1..Len(fields) |-> clean_str(DictGet(document, fields[i]))]))

\* Doc2VecGensimCorpusCreator._clean and Word2VecGensimCorpusCreator._clean
Gensim_clean(document, fields) ==
    IF \E i \in 1..Len(fields) : fields[i] \notin DOMAIN document
    THEN KeyError
    ELSE Ok(join_spaces([i \in 1..Len(fields) |-> clean_str(document[fields[i]])]))

CorpusCreator_transform(document, fields, isRaw) ==
    IF isRaw THEN Ok(StrUnit(CorpusCreator_join(document, fields)))
    ELSE Ok(DictUnit(CorpusCreator_clean(document, fields)))

\* variant of SimpleCorpusCreator_transform: _clean whatever self.raw is
SimpleCorpusCreator_transform_clean_only(document, fields, isRaw) ==
    Ok(StrUnit(SimpleCorpusCreator_clean(document, fields)))

\* CorpusCreator._transform with SimpleCorpusCreator._clean
SimpleCorpusCreator_transform(document, fields, isRaw) ==
    IF isRaw THEN Ok(StrUnit(CorpusCreator_join(document, fields)))
    ELSE Ok(StrUnit(SimpleCorpusCreator_clean(document, fields)))

Doc2Vec_transform(document, fields, tag) ==
    LET c == Gensim_clean(document, fields)
    IN  IF c.err THEN KeyError ELSE Ok(TaggedDocument(SplitWs(c.val), <<tag>>))

\* the list of token lists, one per sentence
Word2Vec_transform(document, fields, isRaw) ==
    LET text == IF isRaw THEN Ok(CorpusCreator_join(document, fields))
                ELSE Gensim_clean(document, fields)
    IN  IF text.err THEN KeyError
        ELSE LET ss == sentence_tokenize(text.val)
             IN  Ok([i \in 1..Len(ss) |-> word_tokenize(ss[i])])

JobCategory_transform(document, fields) ==
    IF \E i \in 1..Len(fields) : fields[i] \notin DOMAIN document
    THEN KeyError
    ELSE Ok(StrUnit(join_spaces([i \in 1..Len(fields) |->
                                    lowercase_strip_punc(document[fields[i]])])))

RawCorpusCreator_transform(document, fields) ==
    IF \E i \in 1..Len(fields) : fields[i] \notin DOMAIN document
    THEN KeyError
    ELSE Ok(StrUnit(join_spaces([i \in 1..Len(fields) |-> document[fields[i]]])))

-----------------------------------------------------------------------------
(* SectionExtractCorpusCreator._transform *)

BulletFirst == {"+", "*", "-"}
BulletChars == << <<"+", " ">>, <<"*", " ">>, <<"-", " ">> >>

\* re.match(self.section_regex, heading), for a literal pattern: a match at the
\* start of the string (the empty pattern matches every string)
ReMatch(pattern, heading) == StartsWith(heading, pattern)

\* variant of LooksLikeHeading: the line before is not looked at
LooksLikeHeading_any_prior(prior_empty, line) ==
    LET words_in_line == Len(SplitOn(line, " "))
    IN  /\ ~IsBlank(line)
        /\ line[1] \notin {"+", "*", "-"}
        /\ ((words_in_line > 0 /\ words_in_line < 4) \/ EndsWith(line, <<":">>))

\* the condition of line 195 that makes a line the new heading
LooksLikeHeading(prior_empty, line) ==
    LET words_in_line == Len(SplitOn(line, " "))
    IN  /\ prior_empty
        /\ ~IsBlank(line)
        /\ line[1] \notin BulletFirst
        /\ ((words_in_line > 0 /\ words_in_line < 4) \/ EndsWith(line, <<":">>))

RECURSIVE StripBullets(_, _)
\* lines 202-204: for each bullet_char in turn, on the line as it is by then
StripBullets(line, i) ==
    IF i > Len(BulletChars) THEN line
    ELSE StripBullets(IF StartsWith(line, BulletChars[i])
                      THEN Replace(line, BulletChars[i]) ELSE line, i + 1)

\* variant of ScanLine: the heading is not matched against the pattern
ScanLine_any_heading(st, line, pattern) ==
    LET heading == IF LooksLikeHeading(st.prior_empty, line) THEN line ELSE st.heading
        take    == line # heading /\ ~IsBlank(line)
    IN  [prior_empty |-> IsBlank(line),
         heading     |-> heading,
         words       |-> IF take THEN st.words \o SplitWs(StripBullets(line, 1))
                         ELSE st.words]

\* one turn of the loop over desclines
ScanLine(st, line, pattern) ==
    LET heading == IF LooksLikeHeading(st.prior_empty, line) THEN line ELSE st.heading
        take    == ReMatch(pattern, heading) /\ line # heading /\ ~IsBlank(line)
    IN  [prior_empty |-> IsBlank(line),
         heading     |-> heading,
         words       |-> IF take THEN st.words \o SplitWs(StripBullets(line, 1))
                         ELSE st.words]

RECURSIVE ScanLines(_, _, _)
ScanLines(st, lines, pattern) ==
    IF lines = <<>> THEN st
    ELSE ScanLines(ScanLine(st, lines[1], pattern), Tail(lines), pattern)

SectionExtract_transform(document, pattern, tag) ==
    IF "description" \notin DOMAIN document THEN KeyError
    ELSE LET split == SplitOn(document["description"], "\n")
             st0 == [prior_empty |-> FALSE, heading |-> <<>>, words |-> <<>>]
         IN  Ok(TaggedDocument(ScanLines(st0, split, pattern).words, <<tag>>))

-----------------------------------------------------------------------------
(* The generators made by __iter__ *)

NoUnit == StrUnit(<<>>)
Stopped == [kind |-> "stop", unit |-> NoUnit]       \* StopIteration
Raised == [kind |-> "KeyError", unit |-> NoUnit]    \* the KeyError reaches next()
Yielded(u) == [kind |-> "yield", unit |-> u]
Nothing == [kind |-> "none", unit |-> NoUnit]

IsTagProducing(v) == v \in {"Doc2VecGensimCorpusCreator", "SectionExtractCorpusCreator"}

\* `for document in self.job_posting_generator`: a started loop goes on from where
\* its iterator is; a new loop over a list starts again, over a generator it does not
LoopStart == IF gen = "fresh" /\ restartable THEN 0 ELSE srcPos

Emission(u, i) == [unit |-> u, doc |-> i, pass |-> passNo, counter |-> k]

\* self._transform(document) of the classes that keep CorpusCreator.__iter__
BaseTransform(document) ==
    CASE variant = "CorpusCreator" ->
             CorpusCreator_transform(document, document_schema_fields, raw)
      [] variant = "SimpleCorpusCreator" ->
             SimpleCorpusCreator_transform(document, document_schema_fields, raw)
      [] variant = "JobCategoryCorpusCreator" ->
             JobCategory_transform(document, document_schema_fields)
      [] OTHER ->
             RawCorpusCreator_transform(document, document_schema_fields)

\* self._transform(document) of the two tag-producing classes, at counter value c
TaggedTransform(document, c) ==
    IF variant = "SectionExtractCorpusCreator"
    THEN SectionExtract_transform(document, section_regex, c)
    ELSE Doc2Vec_transform(document, document_schema_fields, c)

\* CorpusCreator.__iter__, resumed
CorpusCreator_iter ==
    LET pos == LoopStart IN
    IF pos >= Len(job_posting_generator)
    THEN [gen |-> "done", srcPos |-> pos, k |-> k, lookup |-> lookup,
          pending |-> <<>>, out |-> Stopped, pulled |-> <<>>, emit |-> <<>>]
    ELSE LET p == Project(job_posting_generator[pos + 1], document_schema_fields)
             t == IF p.err THEN KeyError ELSE BaseTransform(p.val)
         IN  IF t.err
             THEN [gen |-> "done", srcPos |-> pos + 1, k |-> k, lookup |-> lookup,
                   pending |-> <<>>, out |-> Raised, pulled |-> <<pos>>, emit |-> <<>>]
             ELSE [gen |-> "yielded", srcPos |-> pos + 1, k |-> k, lookup |-> lookup,
                   pending |-> <<>>, out |-> Yielded(t.val), pulled |-> <<pos>>,
                   emit |-> <<Emission(t.val, pos)>>]

\* variant of Doc2Vec_iter_counter: a new generator starts counting at 0
Doc2Vec_iter_counter_restart(c) == IF gen = "yielded" THEN c + 1 ELSE 0

\* variant of Doc2Vec_iter_counter: the counter advanced before the first yield
Doc2Vec_iter_counter_early(c) == c + 1

\* Doc2VecGensimCorpusCreator.__iter__, resumed: a generator suspended at its
\* yield first runs self.k += 1
Doc2Vec_iter_counter(c) == IF gen = "yielded" THEN c + 1 ELSE c

Doc2Vec_iter ==
    LET pos == LoopStart
        k1  == Doc2Vec_iter_counter(k)
    IN
    IF pos >= Len(job_posting_generator)
    THEN [gen |-> "done", srcPos |-> pos, k |-> k1, lookup |-> lookup,
          pending |-> <<>>, out |-> Stopped, pulled |-> <<>>, emit |-> <<>>]
    ELSE LET document == job_posting_generator[pos + 1]
             lookup1 == [x \in DOMAIN lookup \cup {k1} |->
                            IF x = k1 THEN safe_get(document, key) ELSE lookup[x]]
             t == TaggedTransform(document, k1)
         IN  IF t.err
             THEN [gen |-> "done", srcPos |-> pos + 1, k |-> k1, lookup |-> lookup1,
                   pending |-> <<>>, out |-> Raised, pulled |-> <<pos>>, emit |-> <<>>]
             ELSE [gen |-> "yielded", srcPos |-> pos + 1, k |-> k1, lookup |-> lookup1,
                   pending |-> <<>>, out |-> Yielded(t.val), pulled |-> <<pos>>,
                   emit |-> <<[unit |-> t.val, doc |-> pos, pass |-> passNo,
                               counter |-> k1]>>]

RECURSIVE Word2Vec_loop(_, _)
\* the outer loop of Word2VecGensimCorpusCreator.__iter__ from source position pos,
\* up to its next yield, its end or the KeyError; seen: the positions consumed so far
Word2Vec_loop(pos, seen) ==
    IF pos >= Len(job_posting_generator)
    THEN [gen |-> "done", srcPos |-> pos, k |-> k, lookup |-> lookup,
          pending |-> <<>>, out |-> Stopped, pulled |-> seen, emit |-> <<>>]
    ELSE LET p == Project(job_posting_generator[pos + 1], document_schema_fields)
             t == IF p.err THEN KeyError
                  ELSE Word2Vec_transform(p.val, document_schema_fields, raw)
         IN  IF t.err
             THEN [gen |-> "done", srcPos |-> pos + 1, k |-> k, lookup |-> lookup,
                   pending |-> <<>>, out |-> Raised, pulled |-> Append(seen, pos), emit |-> <<>>]
             ELSE IF t.val = <<>> THEN Word2Vec_loop(pos + 1, Append(seen, pos))
             ELSE [gen |-> "yielded", srcPos |-> pos + 1, k |-> k, lookup |-> lookup,
                   pending |-> Tail(t.val), out |-> Yielded(TokensUnit(Head(t.val))),
                   pulled |-> Append(seen, pos),
                   emit |-> <<Emission(TokensUnit(Head(t.val)), pos)>>]

\* variant of Word2Vec_iter: only the first sentence of a document is yielded
Word2Vec_iter_first_only == Word2Vec_loop(LoopStart, <<>>)

Word2Vec_iter ==
    IF gen = "yielded" /\ pending # <<>>
    THEN [gen |-> "yielded", srcPos |-> srcPos, k |-> k, lookup |-> lookup,
          pending |-> Tail(pending), out |-> Yielded(TokensUnit(Head(pending))),
          pulled |-> <<>>,
          emit |-> <<Emission(TokensUnit(Head(pending)), srcPos - 1)>>]
    ELSE Word2Vec_loop(LoopStart, <<>>)

-----------------------------------------------------------------------------
(* Actions of the consumer on one corpus creator instance *)

\* iter(corpus): a new generator object; the one before it is dropped where it stands
Iter ==
    /\ passNo < MaxPasses
    /\ gen' = "fresh"
    /\ passNo' = passNo + 1
    /\ pending' = <<>>
    /\ out' = Nothing
    /\ pulled' = <<>>
    /\ UNCHANGED <<variant, raw, document_schema_fields, job_posting_generator,
                   restartable, section_regex, k, lookup, srcPos, emitted, failed>>
    /\ UNCHANGED <<pipeVars, scanVars>>

\* next(generator)
NextUnit ==
    /\ gen \in {"fresh", "yielded"}
    /\ LET r == CASE IsTagProducing(variant) -> Doc2Vec_iter
                  [] variant = "Word2VecGensimCorpusCreator" -> Word2Vec_iter
                  [] OTHER -> CorpusCreator_iter
       IN  /\ gen' = r.gen
           /\ srcPos' = r.srcPos
           /\ k' = r.k
           /\ lookup' = r.lookup
           /\ pending' = r.pending
           /\ out' = r.out
           /\ pulled' = r.pulled
           /\ emitted' = emitted \o r.emit
           /\ failed' = CASE r.out = Raised -> r.k
                           [] r.emit # <<>> -> -1
                           [] OTHER -> failed
    /\ UNCHANGED <<variant, raw, document_schema_fields, job_posting_generator,
                   restartable, section_regex, passNo>>
    /\ UNCHANGED <<pipeVars, scanVars>>

\* CorpusCreator.__init__ and the __init__ of the subclasses: the instance attribute
\* document_schema_fields is the constructor's argument, for every class
Constructed(v, fields, isRaw, source, canRestart, pattern) ==
    /\ variant = v
    /\ raw = isRaw
    /\ document_schema_fields = fields
    /\ job_posting_generator = source
    /\ restartable = canRestart
    /\ section_regex = pattern
    /\ k = 0
    /\ lookup = [x \in {} |-> None]
    /\ gen = "none"
    /\ srcPos = 0
    /\ pending = <<>>
    /\ passNo = 0
    /\ out = Nothing
    /\ pulled = <<>>
    /\ emitted = <<>>
    /\ failed = -1

\* the locals of SectionExtractCorpusCreator._transform at line 192
ScanStart == [prior_empty |-> FALSE, heading |-> <<>>, words |-> <<>>]

\* no _transform of the section extractor under way
NoScan ==
    /\ scanPc = "idle"
    /\ desclines = <<>>
    /\ scanPos = 0
    /\ scanSt = ScanStart

\* no pipeline in use
NoPipeline ==
    /\ functions = <<>>
    /\ source_data_generator = <<>>
    /\ pipePc = "new"
    /\ pipePos = 0
    /\ applied = <<>>
    /\ outputs = <<>>
    /\ pipeOut = "none"

Init ==
    \E v \in Variants, fields \in FieldLists, isRaw \in BOOLEAN,
       source \in SeqsUpTo(Docs, MaxDocs), canRestart \in BOOLEAN :
        /\ (v = "RawCorpusCreator" => ~isRaw)
        /\ Constructed(v, fields, isRaw, source, canRestart, <<>>)
        /\ NoPipeline
        /\ NoScan

Next == Iter \/ NextUnit

Spec == Init /\ [][Next]_vars

-----------------------------------------------------------------------------
(* Properties of the corpus creators *)

Lacks(document) ==
    \E i \in 1..Len(document_schema_fields) : document_schema_fields[i] \notin DOMAIN document

DocAt(i) == job_posting_generator[i + 1]

Last(s) == s[Len(s)]

\* C1: Doc2Vec-style creator, first iteration of a new instance: the unit of the
\* i-th document (0-indexed) of the source has tag [i], and when it is emitted (and
\* for the rest of that iteration) lookup[i] is that document's onet_soc_code
\* (None when the document has none).
C1_LookupAndTagFirstPass ==
    (variant = "Doc2VecGensimCorpusCreator" /\ passNo = 1) =>
        \A j \in 1..Len(emitted) :
            LET e == emitted[j]
                d == DocAt(e.doc)
            IN  /\ e.unit.tags = <<e.doc>>
                /\ e.doc \in DOMAIN lookup
                /\ lookup[e.doc] = (IF "onet_soc_code" \in DOMAIN d
                                    THEN d["onet_soc_code"] ELSE None)

C1_Witness ==
    /\ variant = "Doc2VecGensimCorpusCreator"
    /\ passNo = 1
    /\ gen = "yielded"
    /\ Len(emitted) = 2
    /\ emitted[2].unit.tags = <<1>>

\* C2: tag-producing creator, any sequence of iterations by one consumer: the
\* counter value when a unit is yielded is the unit's tag, and no tag value is
\* given to two different emitted units.
C2_TagNeverReused ==
    IsTagProducing(variant) =>
        /\ \A j \in 1..Len(emitted) : emitted[j].unit.tags = <<emitted[j].counter>>
        /\ \A i, j \in 1..Len(emitted) :
               i # j => emitted[i].unit.tags # emitted[j].unit.tags

\* C3: base CorpusCreator in clean mode: pulling a document that lacks a configured
\* field raises nothing and yields one cleaned unit, the document projected to the
\* configured fields it has.
C3_BaseCleanTolerant ==
    (variant = "CorpusCreator" /\ ~raw /\ pulled # <<>> /\ Lacks(DocAt(Last(pulled)))) =>
        /\ out.kind = "yield"
        /\ out.unit.type = "dict"
        /\ DOMAIN out.unit.dict =
               Range(document_schema_fields) \cap DOMAIN DocAt(Last(pulled))

IsStrict ==
    \/ variant = "Doc2VecGensimCorpusCreator"
    \/ variant = "Word2VecGensimCorpusCreator" /\ ~raw
    \/ variant = "RawCorpusCreator"

\* C4: Doc2Vec-style, Word2Vec-style in clean mode, Raw-join: a pull that reaches a
\* document lacking a configured field ends with the KeyError at that document (the
\* generator does not go on to a later document), and no unit is ever emitted for
\* such a document.
C4_StrictMissingKey ==
    IsStrict =>
        /\ (\E i \in 1..Len(pulled) : Lacks(DocAt(pulled[i]))) =>
               /\ out.kind = "KeyError"
               /\ gen = "done"
               /\ \A i \in 1..Len(pulled) : Lacks(DocAt(pulled[i])) => i = Len(pulled)
        /\ \A j \in 1..Len(emitted) : ~Lacks(DocAt(emitted[j].doc))

C4_Witness ==
    /\ variant = "Doc2VecGensimCorpusCreator"
    /\ pulled = <<1>>
    /\ Lacks(DocAt(1))
    /\ out.kind = "KeyError"
    /\ Len(emitted) = 1

\* offset of the value of the i-th configured field in the joined string
RECURSIVE Offset(_, _)
Offset(d, i) ==
    IF i = 1 THEN 0
    ELSE Offset(d, i - 1) + Len(d[document_schema_fields[i - 1]]) + 1

C10_CategoryFixedField ==
    variant = "JobCategoryCorpusCreator" =>
        /\ (pulled # <<>> /\ JobCategoryClassFields[1] \in DOMAIN DocAt(Last(pulled))) =>
               out.kind = "yield"
        /\ \A j \in 1..Len(emitted) :
               emitted[j].unit.str =
                   lowercase_strip_punc(DocAt(emitted[j].doc)[JobCategoryClassFields[1]])

-----------------------------------------------------------------------------
(* The section extractor over descriptions with line breaks *)

LineBlank == <<>>
LineReq == <<"R", ":">>                               \* "R:"
LineBen == <<"B", ":">>                               \* "B:"
LineBullet == <<"-", " ", "m">>                       \* "- m"
LineBullets == <<"-", " ", "m", " ", "-", " ", "c">>  \* "- m - c"
LinePara == <<"a", " ", "b", " ", "c", " ", "d">>     \* "a b c d"

Lines == {LineBlank, LineReq, LineBen, LineBullet, LineBullets, LinePara}

\* "I\n\nR:\n- m c\n- m t\n\nB:\n- g"
ExampleLines == << <<"I">>, <<>>, <<"R", ":">>, <<"-", " ", "m", " ", "c">>,
                   <<"-", " ", "m", " ", "t">>, <<>>, <<"B", ":">>, <<"-", " ", "g">> >>

Posting(lines, code) == [description |-> Flatten(lines, <<"\n">>), onet_soc_code |-> code]

ExampleDoc == Posting(ExampleLines, "15-1132")

\* a posting without a description
DocNoDescription == [skills |-> <<"S">>, onet_soc_code |-> "43-4051"]

SectionSources ==
    {<<Posting(ls, "11-1011")>> : ls \in SeqsUpTo(Lines, MaxLines)}
        \cup {<<ExampleDoc>>, <<ExampleDoc, ExampleDoc>>, <<DocNoDescription, ExampleDoc>>,
              <<ExampleDoc, DocNoDescription>>}

\* literal patterns: "R", and the empty pattern, which matches every heading
Patterns == {<<"R">>, <<>>}

InitSection ==
    \E source \in SectionSources, pattern \in Patterns :
        /\ Constructed("SectionExtractCorpusCreator", DefaultFields, FALSE, source, TRUE,
                       pattern)
        /\ NoPipeline
        /\ NoScan

SpecSection == InitSection /\ [][Next]_vars

\* a line that starts a section: it follows a blank line, is not blank, does not
\* start with a bullet character, and has 1 to 3 space-separated words or ends
\* with a colon
IsHeadingLine(lines, i) ==
    /\ i > 1
    /\ IsBlank(lines[i - 1])
    /\ ~IsBlank(lines[i])
    /\ lines[i][1] \notin {"+", "*", "-"}
    /\ \/ Cardinality({j \in 1..Len(lines[i]) : lines[i][j] = " "}) + 1 \in 1..3
       \/ lines[i][Len(lines[i])] = ":"

\* the heading in force at line i: the last heading line at or before it (0: none)
HeadingInForce(lines, i) ==
    LET hs == {j \in 1..i : IsHeadingLine(lines, j)}
    IN  IF hs = {} THEN 0 ELSE CHOOSE j \in hs : \A h \in hs : h <= j

\* a non-blank line under a heading that matches the pattern, and that is neither
\* that heading nor a repetition of its text
UnderMatchingHeading(lines, i, pattern) ==
    LET h == HeadingInForce(lines, i)
    IN  /\ h > 0
        /\ lines[i] # lines[h]
        /\ StartsWith(lines[h], pattern)
        /\ ~IsBlank(lines[i])

\* the tokens of a line, one leading bullet marker taken off
LineTokens(line) ==
    SplitWs(IF \E b \in {"+", "*", "-"} : StartsWith(line, <<b, " ">>)
            THEN SubSeq(line, 3, Len(line)) ELSE line)

RECURSIVE SectionTokens(_, _, _)
\* the tokens of lines 1..i that lie under a matching heading, in line order
SectionTokens(lines, i, pattern) ==
    IF i = 0 THEN <<>>
    ELSE SectionTokens(lines, i - 1, pattern)
             \o (IF UnderMatchingHeading(lines, i, pattern)
                 THEN LineTokens(lines[i]) ELSE <<>>)

\* C8: Section-restricted creator, pattern not matching the empty string: the token
\* list of a unit is exactly the tokens of the non-blank, non-heading lines under a
\* heading that matches the pattern, in line order; nothing comes from lines before
\* the first matching heading or under a later heading that does not match.
C8_SectionTokens ==
    (variant = "SectionExtractCorpusCreator" /\ section_regex # <<>>) =>
        \A j \in 1..Len(emitted) :
            LET lines == SplitOn(DocAt(emitted[j].doc)["description"], "\n")
            IN  emitted[j].unit.words = SectionTokens(lines, Len(lines), section_regex)

-----------------------------------------------------------------------------
(* IterablePipeline and func2gen *)

NoneItem == -1                      \* Python's None among the integer items
Items == {NoneItem, 0, 1, 2}

StageNames == {"inc", "dbl", "odd_none", "fail_two"}

\* variant of Apply: the call wrapped in try/except, a failure giving None
Apply_swallow(f, x) ==
    CASE f = "inc" -> [err |-> FALSE, val |-> x + 1]
      [] f = "dbl" -> [err |-> FALSE, val |-> 2 * x]
      [] f = "odd_none" -> [err |-> FALSE, val |-> IF x % 2 = 1 THEN NoneItem ELSE x]
      [] f = "fail_two" -> [err |-> FALSE, val |-> IF x = 2 THEN NoneItem ELSE x]
      [] OTHER -> [err |-> FALSE, val |-> x]

\* the stage functions: inc and dbl are total, odd_none returns None for an odd
\* item, fail_two raises on the item 2
Apply(f, x) ==
    CASE f = "inc" -> [err |-> FALSE, val |-> x + 1]
      [] f = "dbl" -> [err |-> FALSE, val |-> 2 * x]
      [] f = "odd_none" -> [err |-> FALSE, val |-> IF x % 2 = 1 THEN NoneItem ELSE x]
      [] f = "fail_two" -> [err |-> x = 2, val |-> x]
      [] OTHER -> [err |-> FALSE, val |-> x]

\* IterablePipeline._generators: one func2gen wrapper per function, in order
Generators(fs) == [i \in 1..Len(fs) |-> fs[i]]

\* variant of Compose: lambda f, g: lambda x: f(g(x)), the last function innermost
Compose_reversed(gs) == [i \in 1..Len(gs) |-> gs[Len(gs) + 1 - i]]

\* variant of Compose: reduce started from func2gen of the identity function
Compose_wrapped_identity(gs) == <<"identity">> \o gs

\* IterablePipeline._compose: reduce(lambda f, g: lambda x: g(f(x)), gs, lambda x: x);
\* the chain of wrappers from the one next to the source to the outermost one
Compose(gs) == gs

Chain == Compose(Generators(functions))

\* variant of Skips: `if item:` in place of `if item is not None:`
Skips_falsy(item) == item = NoneItem \/ item = 0

\* func2gen's wrapper passes over an item that is None
Skips(item) == item = NoneItem

\* variant of Advance: the wrapper drains its input before its first yield
Advance_drain(pos) == Len(source_data_generator)

\* `for item in args[0]` takes one item of the source at a time
Advance(pos) == pos + 1

RECURSIVE PullFrom(_, _, _)
\* next() on the generator of stage `level` (0: the source itself) with the source
\* at position pos and the calls made so far in log: the item it yields (with the
\* source index it came from), StopIteration, or the exception of a stage function
PullFrom(level, pos, log) ==
    IF level = 0
    THEN IF pos >= Len(source_data_generator)
         THEN [kind |-> "stop", val |-> NoneItem, src |-> pos, pos |-> pos, log |-> log]
         ELSE [kind |-> "item", val |-> source_data_generator[pos + 1], src |-> pos,
               pos |-> Advance(pos), log |-> log]
    ELSE LET r == PullFrom(level - 1, pos, log)
         IN  IF r.kind # "item" THEN r
             ELSE IF Skips(r.val) THEN PullFrom(level, r.pos, r.log)
             ELSE LET a == Apply(Chain[level], r.val)
                      log1 == Append(r.log, <<level, r.src>>)
                  IN  IF a.err
                      THEN [kind |-> "raise", val |-> NoneItem, src |-> r.src,
                            pos |-> r.pos, log |-> log1]
                      ELSE [kind |-> "item", val |-> a.val, src |-> r.src,
                            pos |-> r.pos, log |-> log1]

\* IterablePipeline.build(source): calling the composed function makes the generator
\* objects and runs none of them
Build ==
    /\ pipePc = "new"
    /\ pipePc' = "built"
    /\ UNCHANGED <<functions, source_data_generator, pipePos, applied, outputs, pipeOut>>
    /\ UNCHANGED <<corpusVars, scanVars>>

\* next() on the built pipeline
Pull ==
    /\ pipePc \in {"built", "running"}
    /\ LET r == PullFrom(Len(Chain), pipePos, applied)
       IN  /\ pipePos' = r.pos
           /\ applied' = r.log
           /\ pipeOut' = r.kind
           /\ pipePc' = IF r.kind = "item" THEN "running" ELSE "finished"
           /\ outputs' = IF r.kind = "item"
                         THEN Append(outputs, [val |-> r.val, src |-> r.src])
                         ELSE outputs
    /\ UNCHANGED <<functions, source_data_generator>>
    /\ UNCHANGED <<corpusVars, scanVars>>

\* no corpus creator in use
NoCorpus == Constructed("CorpusCreator", DefaultFields, FALSE, <<>>, TRUE, <<>>)

InitPipeline ==
    \E fs \in SeqsUpTo(StageNames, MaxStages), src \in SeqsUpTo(Items, MaxItems) :
        /\ functions = fs
        /\ source_data_generator = src
        /\ pipePc = "new"
        /\ pipePos = 0
        /\ applied = <<>>
        /\ outputs = <<>>
        /\ pipeOut = "none"
        /\ NoCorpus
        /\ NoScan

NextPipeline == Build \/ Pull

SpecPipeline == InitPipeline /\ [][NextPipeline]_vars

-----------------------------------------------------------------------------
(* Properties of the pipeline *)

IsItem(x) == x # NoneItem

OutputVals == [j \in 1..Len(outputs) |-> outputs[j].val]

Taken == SubSeq(source_data_generator, 1, pipePos)

\* C5 as stated: a pipeline of zero stages yields the source's items in order with
\* every None removed.
C5_ZeroStagesDropNone ==
    functions = <<>> =>
        /\ OutputVals = SelectSeq(Taken, IsItem)
        /\ pipeOut = "stop" => pipePos = Len(source_data_generator)

\* C5, amended: a pipeline of zero stages yields the source's items in order and
\* unchanged, None items included: build returns the source itself.
C5_ZeroStagesIdentity ==
    functions = <<>> =>
        /\ OutputVals = Taken
        /\ applied = <<>>
        /\ pipeOut = "stop" => pipePos = Len(source_data_generator)

C5_Witness ==
    /\ functions = <<>>
    /\ pipeOut = "stop"
    /\ Len(outputs) = 3
    /\ outputs[2].val = NoneItem

\* C6: a pipeline of one stage f that raises on none of the items yields, in source
\* order, f(item) for every item that is not None and nothing for a None; when the
\* source is exhausted the number of outputs is the number of source items less the
\* number of None items.
C6_OneStageSkipsNone ==
    (Len(functions) = 1 /\ pipeOut # "raise") =>
        LET kept == SelectSeq(Taken, IsItem)
        IN  /\ Len(outputs) = Len(kept)
            /\ \A j \in 1..Len(kept) : outputs[j].val = Apply(functions[1], kept[j]).val
            /\ pipeOut = "stop" =>
                   Len(outputs) = Len(source_data_generator)
                       - Cardinality({i \in 1..Len(source_data_generator) :
                                         source_data_generator[i] = NoneItem})

C6_Witness ==
    /\ functions = <<"inc">>
    /\ source_data_generator = <<0, NoneItem, 2>>
    /\ pipeOut = "stop"
    /\ OutputVals = <<1, 3>>

\* C7: build takes no item from the source; after the consumer has pulled K items
\* from the built pipeline, no source item after the one that gave the K-th output
\* has been taken, and no stage function has been applied to a later item.
C7_Lazy ==
    /\ pipePc \in {"new", "built"} => (pipePos = 0 /\ applied = <<>>)
    /\ pipeOut = "item" =>
           /\ pipePos = outputs[Len(outputs)].src + 1
           /\ \A j \in 1..Len(applied) : applied[j][2] <= outputs[Len(outputs)].src
    /\ \A j \in 1..Len(applied) : applied[j][2] < pipePos

C7_Witness ==
    /\ Len(functions) = 2
    /\ Len(source_data_generator) = 3
    /\ pipeOut = "item"
    /\ Len(outputs) = 1
    /\ pipePos = 2


-----------------------------------------------------------------------------
(* Properties of the corpus creators, continued *)

RECURSIVE OffsetIn(_, _)
\* where the i-th of the values starts in their join by single spaces
OffsetIn(vals, i) ==
    IF i = 1 THEN 0 ELSE OffsetIn(vals, i - 1) + Len(vals[i - 1]) + 1

\* s is the values in their order, one space between two of them
IsJoinOf(s, vals) ==
    LET n == Len(vals)
    IN  /\ n >= 1
        /\ Len(s) = OffsetIn(vals, n) + Len(vals[n])
        /\ \A i \in 1..n :
               LET o == OffsetIn(vals, i)
               IN  /\ SubSeq(s, o + 1, o + Len(vals[i])) = vals[i]
                   /\ i < n => s[o + Len(vals[i]) + 1] = " "

\* the configured fields' values of a document that has them all
RawValues(d) == [i \in 1..Len(document_schema_fields) |-> d[document_schema_fields[i]]]

LoweredValues(d) ==
    [i \in 1..Len(document_schema_fields) |->
        lowercase_strip_punc(d[document_schema_fields[i]])]

C12_RawToleratesMissing ==
    (variant \in {"CorpusCreator", "Word2VecGensimCorpusCreator"} /\ raw
        /\ pulled # <<>> /\ Lacks(DocAt(Last(pulled)))) =>
        /\ out.kind # "KeyError"
        /\ variant = "CorpusCreator" =>
               /\ out.kind = "yield"
               /\ IsJoinOf(out.unit.str,
                           [i \in 1..Len(document_schema_fields) |->
                               DictGet(DocAt(Last(pulled)), document_schema_fields[i])])


\* the token lists of the sentences of a document that has every configured field
SentencesOf(d) ==
    LET text == IF raw THEN join_spaces(RawValues(d))
                ELSE join_spaces([i \in 1..Len(document_schema_fields) |->
                                     clean_str(d[document_schema_fields[i]])])
        ss   == sentence_tokenize(text)
    IN  [i \in 1..Len(ss) |-> word_tokenize(ss[i])]

\* the units emitted for document i in iteration p, in the order of their emission
UnitsOf(p, i) ==
    LET es == SelectSeq(emitted, LAMBDA e : e.pass = p /\ e.doc = i)
    IN  [j \in 1..Len(es) |-> es[j].unit.words]

IsPrefix(s, t) == Len(s) <= Len(t) /\ SubSeq(t, 1, Len(s)) = s

RECURSIVE SentenceCount(_)
\* the number of sentences of the first n documents of the source
SentenceCount(n) ==
    IF n = 0 THEN 0 ELSE SentenceCount(n - 1) + Len(SentencesOf(DocAt(n - 1)))

-----------------------------------------------------------------------------
(* Properties of the pipeline, continued *)

\* the stage function f raises on the item x
Fails(f, x) == f = "fail_two" /\ x = 2

RECURSIVE Through(_, _)
\* what becomes of the source item x on its way through the first n functions:
\* its value after them ("val"), dropped because the source or function `at` gave
\* None to the next stage ("dropped"), or function `at` raised ("err")
Through(x, n) ==
    IF n = 0 THEN [st |-> "val", v |-> x, at |-> 0]
    ELSE LET r == Through(x, n - 1)
         IN  IF r.st # "val" THEN r
             ELSE IF r.v = NoneItem THEN [st |-> "dropped", v |-> NoneItem, at |-> n - 1]
             ELSE IF Fails(functions[n], r.v) THEN [st |-> "err", v |-> NoneItem, at |-> n]
             ELSE [st |-> "val", v |-> Apply(functions[n], r.v).val, at |-> n]

Fate(i) == Through(source_data_generator[i + 1], Len(functions))

OutputSrcs == [j \in 1..Len(outputs) |-> outputs[j].src]

\* C14: a stage function that raises on an item that is not None: the exception
\* reaches the consumer at the pull that takes that item, the outputs of all earlier
\* items that have one were delivered before, the pipeline does not go on past the
\* failing item, and no stage is called twice on an item.
C14_StageErrorPropagates ==
    /\ \A i \in 0..(pipePos - 1) :
           Fate(i).st = "err" =>
               (pipeOut = "raise" /\ pipePc = "finished" /\ i = pipePos - 1)
    /\ pipeOut = "raise" =>
           /\ pipePos >= 1
           /\ Fate(pipePos - 1).st = "err"
           /\ applied[Len(applied)] = <<Fate(pipePos - 1).at, pipePos - 1>>
           /\ Range(OutputSrcs) = {i \in 0..(pipePos - 2) : Fate(i).st = "val"}
    /\ \A a, b \in 1..Len(applied) : a # b => applied[a] # applied[b]
    /\ \A a, b \in 1..Len(outputs) : a < b => outputs[a].src < outputs[b].src

C14_Witness ==
    /\ functions = <<"inc", "fail_two">>
    /\ source_data_generator = <<0, 1, 2>>
    /\ pipeOut = "raise"
    /\ OutputVals = <<1>>
    /\ pipePos = 2

\* C15: an item for which a stage of an N-stage pipeline returns None, the last
\* stage included, has no output in the built sequence and no later stage is
\* applied to it.
C15_NoneResultDropped ==
    \A i \in 0..(pipePos - 1) :
        LET f == Fate(i)
            s == IF f.st = "dropped" THEN f.at ELSE Len(functions)
        IN  ((f.st = "dropped" /\ f.at >= 1)
                \/ (f.st = "val" /\ f.v = NoneItem /\ Len(functions) >= 1)) =>
                /\ \A j \in 1..Len(outputs) : outputs[j].src # i
                /\ \A a \in 1..Len(applied) : applied[a][2] = i => applied[a][1] <= s

RECURSIVE Nest(_, _)
\* functions[n]( ... functions[1](x) ... )
Nest(x, n) == IF n = 0 THEN x ELSE Apply(functions[n], Nest(x, n - 1)).val

\* the source holds no None and no function raises or returns None on its items
WellBehaved ==
    \A i \in 1..Len(source_data_generator) :
        /\ source_data_generator[i] # NoneItem
        /\ \A n \in 1..Len(functions) :
               /\ ~Fails(functions[n], Nest(source_data_generator[i], n - 1))
               /\ Nest(source_data_generator[i], n) # NoneItem

\* C16: for functions f1..fN given in that order, over a source without None on
\* which no function returns None or raises, the j-th output is
\* fN(...f2(f1(x_j))...): stage i+1 is applied to the output of stage i, item by
\* item in source order.
C16_LeftToRight ==
    WellBehaved =>
        /\ \A j \in 1..Len(outputs) :
               /\ outputs[j].src = j - 1
               /\ outputs[j].val = Nest(source_data_generator[j], Len(functions))
        /\ \A a, b \in 1..Len(applied) :
               (a < b /\ applied[a][2] = applied[b][2]) => applied[a][1] < applied[b][1]
        /\ pipeOut = "stop" => Len(outputs) = Len(source_data_generator)

C16_Witness ==
    /\ functions = <<"inc", "dbl">>
    /\ source_data_generator = <<0, 1, 2>>
    /\ pipeOut = "stop"
    /\ OutputVals = <<2, 4, 6>>


-----------------------------------------------------------------------------
(* SectionExtractCorpusCreator._transform, line by line *)

LineShort == <<"R", " ", "x", " ", "y">>                       \* "R x y"
LineLongColon == <<"a", " ", "b", " ", "c", " ", "d", ":">>    \* "a b c d:"
LineSpace == <<" ">>                                           \* " "

ScanLineSet == Lines \cup {LineShort, LineLongColon, LineSpace}

\* lines 189-192: the locals at the start of the loop
TransformEnter ==
    /\ scanPc = "idle"
    /\ "description" \in DOMAIN job_posting_generator[1]
    /\ scanPc' = "loop"
    /\ desclines' = SplitOn(job_posting_generator[1]["description"], "\n")
    /\ scanPos' = 0
    /\ scanSt' = ScanStart
    /\ UNCHANGED <<corpusVars, pipeVars>>

\* lines 193-205: one line of desclines
TransformLine ==
    /\ scanPc = "loop"
    /\ scanPos < Len(desclines)
    /\ scanSt' = ScanLine(scanSt, desclines[scanPos + 1], section_regex)
    /\ scanPos' = scanPos + 1
    /\ UNCHANGED <<scanPc, desclines, corpusVars, pipeVars>>

\* lines 206-207: the tagged document is returned
TransformReturn ==
    /\ scanPc = "loop"
    /\ scanPos = Len(desclines)
    /\ scanPc' = "returned"
    /\ out' = Yielded(TaggedDocument(scanSt.words, <<k>>))
    /\ UNCHANGED <<variant, raw, document_schema_fields, job_posting_generator,
                   restartable, section_regex, k, lookup, gen, srcPos, pending,
                   passNo, pulled, emitted, failed>>
    /\ UNCHANGED <<desclines, scanPos, scanSt, pipeVars>>

InitScan ==
    \E ls \in SeqsUpTo(ScanLineSet, MaxLines), pattern \in Patterns :
        /\ Constructed("SectionExtractCorpusCreator", DefaultFields, FALSE,
                       <<Posting(ls, "11-1011")>>, TRUE, pattern)
        /\ NoPipeline
        /\ NoScan

NextScan == TransformEnter \/ TransformLine \/ TransformReturn

SpecScan == InitScan /\ [][NextScan]_vars

\* C17: the section extractor's heading becomes the line just read if and only if
\* the line before it was blank, the line is not blank, its first character is not
\* '+', '*' or '-', and it has 1 to 3 space-separated words or ends with a colon;
\* on every other line (blank lines and long paragraphs too) the heading stays as it
\* was, and the first line never becomes the heading.
C17_HeadingChange ==
    [][scanPos' = scanPos + 1 =>
          /\ IF IsHeadingLine(desclines, scanPos')
             THEN scanSt'.heading = desclines[scanPos']
             ELSE scanSt'.heading = scanSt.heading
          /\ scanPos' = 1 => scanSt'.heading = <<>>]_vars

C17_Witness ==
    /\ scanPc = "returned"
    /\ section_regex = <<"R">>
    /\ desclines = <<LineBlank, LineShort, LinePara>>
    /\ scanSt.heading = LineShort
    /\ scanSt.words = << <<"a">>, <<"b">>, <<"c">>, <<"d">> >>

\* C18: a line the section extractor accumulates loses at most one bullet marker
\* ("+ ", "* " or "- "), and only at its start; all its other tokens, a later
\* occurrence of a marker included, are appended unchanged to the word list.
C18_OneLeadingBullet ==
    [][scanPos' = scanPos + 1 =>
          \/ scanSt'.words = scanSt.words
          \/ scanSt'.words = scanSt.words \o LineTokens(desclines[scanPos'])]_vars


-----------------------------------------------------------------------------
(* Properties of the section extractor, continued *)

\* a posting with a description none of whose detected headings matches the pattern
NoDetectedHeadingMatches(d) ==
    /\ "description" \in DOMAIN d
    /\ LET lines == SplitOn(d["description"], "\n")
       IN  \A i \in 1..Len(lines) :
               IsHeadingLine(lines, i) => ~StartsWith(lines[i], section_regex)

\* the same, and the empty heading in force before the first detected one does not
\* match the pattern either
NoHeadingMatches(d) ==
    /\ NoDetectedHeadingMatches(d)
    /\ ~StartsWith(<<>>, section_regex)

-----------------------------------------------------------------------------
(* Properties of the tag-producing creators, continued *)

\* C20: tag-producing creator: a pull that fails with KeyError emits no unit and
\* leaves the counter at the value whose lookup entry it has just written with the
\* failing document's key (a failing first pull of an iteration leaves the counter as
\* it was); the counter stays there until a unit is emitted, and the next unit
\* emitted by a later iteration has that counter value as its tag and overwrites that
\* lookup entry with its own document's key.
C20_FailedPullKeepsCounter ==
    [][IsTagProducing(variant) =>
          /\ (NextUnit /\ out' = Raised) =>
                 /\ emitted' = emitted
                 /\ gen = "fresh" => k' = k
                 /\ k' \in DOMAIN lookup'
                 /\ lookup'[k'] = safe_get(DocAt(pulled'[1]), key)
          /\ failed' >= 0 => k' = failed'
          /\ (failed >= 0 /\ emitted' # emitted) =>
                 /\ Len(emitted') = Len(emitted) + 1
                 /\ gen = "fresh"
                 /\ Last(emitted').unit.tags = <<failed>>
                 /\ lookup'[failed] = safe_get(DocAt(Last(emitted').doc), key)]_vars

C20_Witness ==
    /\ variant = "Doc2VecGensimCorpusCreator"
    /\ ~restartable
    /\ Len(job_posting_generator) = 2
    /\ Lacks(DocAt(0))
    /\ safe_get(DocAt(0), key) # safe_get(DocAt(1), key)
    /\ passNo = 2
    /\ Len(emitted) = 1
    /\ emitted[1].doc = 1
    /\ emitted[1].unit.tags = <<0>>
    /\ lookup[0] = safe_get(DocAt(1), key)
    /\ failed = -1

====
